---- MODULE Spec2Model ----
(***************************************************************************)
(* Model of rename_video_files (src/src/main.rs).                          *)
(*                                                                         *)
(* Two specifications share this module:                                   *)
(*   Spec      the rename pipeline: main, process_dir, process_file run    *)
(*             against a small filesystem tree, one or more runs in a row. *)
(*   SpecMeta  the metadata extractor: get_metadata_value applied to a     *)
(*             bounded set of probed containers.                           *)
(***************************************************************************)
EXTENDS Integers, Sequences, FiniteSets, TLC

VARIABLES
    fs,         \* the filesystem: path (sequence of names) -> entry
    args,       \* Args of the current run: template, dir/file path, run flag
    pc,         \* "idle" | "running" | "unwinding" | "done"; SpecMeta: "probed" | "extracted"
    stack,      \* process_dir activations: [dir, paths, i], innermost last
    log,        \* the calls of the current run: process_file, failed process_dir
    result,     \* what main returned in the current run: "none" | "Ok" | "Err"
    history,    \* finished runs: [args, calls, result]
    container,  \* SpecMeta: the probed container handed to get_metadata_value
    best,       \* SpecMeta: answers of streams().best(kind), -1 = None
    meta        \* SpecMeta: result of get_metadata_value, or "pending"

vars == <<fs, args, pc, stack, log, result, history, container, best, meta>>

(***************************************************************************)
(* Bounds of the model.                                                    *)
(***************************************************************************)
MaxStreams == 2
MaxRuns == 2
MaxEntries == 2

(***************************************************************************)
(* serde_json::Value, tagged so that values of different JSON types are    *)
(* never confused.                                                         *)
(***************************************************************************)
Str(s) == [t |-> "string", v |-> s]
Num(n) == [t |-> "number", v |-> n]
Pair(n, d) == [t |-> "array", v |-> <<Num(n), Num(d)>>]
Obj(map) == [t |-> "object", v |-> map]
Null == [t |-> "null", v |-> 0]

\* f64::from(Rational) followed by Value::from(f64): NaN and infinity (a zero
\* denominator) become JSON null.  A finite float is kept in thousandths.
FloatValue(r) ==
    IF r[2] = 0 THEN Null ELSE [t |-> "float", v |-> (r[1] * 1000) \div r[2]]

\* format!("{}", rational)
RationalToString(r) == ToString(r[1]) \o "/" \o ToString(r[2])

Insert(map, key, value) == (key :> value) @@ map

EmptyMap == [k \in {} |-> Null]

insert_rational_value(map, key, rational) ==
    LET m1 == Insert(map, key, Pair(rational[1], rational[2]))
        m2 == Insert(m1, key \o "_str", Str(RationalToString(rational)))
    IN  Insert(m2, key \o "_float", FloatValue(rational))

(***************************************************************************)
(* Datetime normalizer.  Timestamps that parse as DateTime<Utc> and their  *)
(* rendering under the default format in a UTC+0 local zone.               *)
(***************************************************************************)
DefaultDatetimeFormat == "%Y%m%d%H%M%S"

DatetimeFormats == {"%Y%m%d%H%M%S", "%Y"}

KnownTimes ==
    ("2023-05-01T10:00:00Z" :>
        ("%Y%m%d%H%M%S" :> "20230501100000" @@ "%Y" :> "2023"))

format_datetime(value, fmt) ==
    IF value.t # "string"
    THEN [ok |-> FALSE, err |-> "Message"]
    ELSE IF value.v \in DOMAIN KnownTimes
    THEN [ok |-> TRUE, value |-> Str(KnownTimes[value.v][fmt])]
    ELSE [ok |-> FALSE, err |-> "ChronoFormatParseError"]

(***************************************************************************)
(* Metadata extractor.  A probed container is                              *)
(*   [tags: sequence of [k, v], streams: sequence of stream probes]        *)
(* and a stream probe is [medium, paramsOk, decoderOk, rate]: its medium,  *)
(* whether Context::from_parameters succeeds, whether the video/audio      *)
(* decoder view opens, and its r_frame_rate.  The remaining probe values   *)
(* are fixed.                                                              *)
(***************************************************************************)
TimeBase == <<1, 1000>>
AspectRatio == <<16, 9>>

\* lines 169-181: the loop over ctx.metadata()
RECURSIVE TagLoop(_, _, _, _)
TagLoop(tags, i, root_map, fmt) ==
    IF i > Len(tags) THEN [ok |-> TRUE, value |-> root_map]
    ELSE LET k == tags[i].k
             v == Str(tags[i].v)
         IN  IF k = "creation_time"
             THEN LET r == format_datetime(v, fmt)
                  IN  IF ~r.ok THEN r
                      ELSE TagLoop(tags, i + 1,
                               Insert(Insert(root_map, "ct", r.value), k, r.value),
                               fmt)
             ELSE TagLoop(tags, i + 1, Insert(root_map, k, v), fmt)

\* lines 194-203: the fields every stream gets
GenericFields(stream, index) ==
    LET m1 == Insert(EmptyMap, "index", Num(index))
        m2 == insert_rational_value(m1, "time_base", TimeBase)
        m3 == Insert(m2, "start_time", Num(0))
        m4 == Insert(m3, "duration_stream_timebase", Num(2000))
        m5 == Insert(m4, "duration_in_sec",
                     FloatValue(<<2000 * TimeBase[1], TimeBase[2]>>))
        m6 == Insert(m5, "frames", Num(60))
        m7 == Insert(m6, "disposition", Str("DEFAULT"))
        m8 == Insert(m7, "discard", Str("Default"))
    IN  insert_rational_value(m8, "rate", stream.rate)

\* lines 207-208
CodecFields(map, stream) ==
    Insert(Insert(map, "codec_medium", Str(stream.medium)), "codec", Str("H264"))

\* lines 212-226
VideoFields(map, stream) ==
    LET m1 == Insert(map, "bit_rate", Num(1000))
        m2 == Insert(m1, "max_bit_rate", Num(0))
        m3 == Insert(m2, "delay", Num(0))
        m4 == Insert(m3, "width", Num(1920))
        m5 == Insert(m4, "height", Num(1080))
        m6 == Insert(m5, "format", Str("YUV420P"))
        m7 == Insert(m6, "has_b_frames", [t |-> "bool", v |-> TRUE])
        m8 == insert_rational_value(m7, "aspect_ratio", AspectRatio)
        m9 == Insert(m8, "color_space", Str("BT709"))
        m10 == Insert(m9, "color_range", Str("MPEG"))
        m11 == Insert(m10, "color_primaries", Str("BT709"))
        m12 == Insert(m11, "color_transfer_characteristic", Str("BT709"))
        m13 == Insert(m12, "chroma_location", Str("Left"))
        m14 == Insert(m13, "references", Num(1))
    IN  Insert(m14, "intra_dc_precision", Num(0))

\* lines 230-238
AudioFields(map, stream) ==
    LET m1 == Insert(map, "bit_rate", Num(128))
        m2 == Insert(m1, "max_bit_rate", Num(0))
        m3 == Insert(m2, "delay", Num(0))
        m4 == Insert(m3, "rate", Num(48000))
        m5 == Insert(m4, "channels", Num(2))
        m6 == Insert(m5, "format", Str("F32"))
        m7 == Insert(m6, "frames", Num(0))
        m8 == Insert(m7, "align", Num(0))
    IN  Insert(m8, "channel_layout", Str("STEREO"))

\* lines 210-240: the fields of the decoder view, when it opens
MediumFields(map, stream) ==
    IF stream.medium = "Video"
    THEN IF stream.decoderOk THEN VideoFields(map, stream) ELSE map
    ELSE IF stream.medium = "Audio"
    THEN IF stream.decoderOk THEN AudioFields(map, stream) ELSE map
    ELSE map

\* lines 194-241: the mapping pushed for one stream
StreamMap(stream, index) ==
    MediumFields(CodecFields(GenericFields(stream, index), stream), stream)

\* lines 192-242: the loop over ctx.streams(); stream.index() is i - 1
RECURSIVE StreamLoop(_, _, _)
StreamLoop(strs, i, streams) ==
    IF i > Len(strs) THEN [ok |-> TRUE, value |-> streams]
    ELSE IF ~strs[i].paramsOk THEN [ok |-> FALSE, err |-> "FfmpegError"]
    ELSE StreamLoop(strs, i + 1, Append(streams, Obj(StreamMap(strs[i], i - 1))))

\* lines 244-263: alias the best stream of one kind under both keys; b is the
\* index answered by streams().best(kind), or -1 when it answers None
InsertAlias(root_map, streams, b, short, long) ==
    IF b >= 0 /\ b < Len(streams)
    THEN Insert(Insert(root_map, short, streams[b + 1]), long, streams[b + 1])
    ELSE root_map

\* lines 244-263
InsertAliases(root_map, streams, bst) ==
    InsertAlias(
        InsertAlias(
            InsertAlias(root_map, streams, bst.Video, "v", "video"),
            streams, bst.Audio, "a", "audio"),
        streams, bst.Subtitle, "s", "subtitle")

\* lines 171, 205, 244-266: an error of either loop is returned, the tags'
\* first; otherwise the aliases and streams complete the root map
Assemble(tagged, looped, bst) ==
    IF ~tagged.ok THEN tagged
    ELSE IF ~looped.ok THEN looped
    ELSE [ok |-> TRUE,
          value |-> Insert(InsertAliases(tagged.value, looped.value, bst),
                           "streams", [t |-> "array", v |-> looped.value])]

get_metadata_value(ctx, bst, fmt) ==
    Assemble(TagLoop(ctx.tags, 1, EmptyMap, fmt), StreamLoop(ctx.streams, 1, <<>>), bst)

(***************************************************************************)
(* The filesystem.  A path is a sequence of names below the root <<>>.     *)
(* An entry is [kind, id, c]: kind is "file", "dir" (a directory that can  *)
(* be listed and written), "dirx" (a directory without permissions) or     *)
(* "symlink" (a dangling symbolic link); id names the entry whatever its   *)
(* path; c names a file's content in Contents.                             *)
(***************************************************************************)
Names == {"a", "b", "s"}

VideoStream(paramsOk) ==
    [medium |-> "Video", paramsOk |-> paramsOk, decoderOk |-> TRUE,
     rate |-> <<30000, 1001>>]

NoBest == [Video |-> -1, Audio |-> -1, Subtitle |-> -1]

\* What ffmpeg::format::input finds in a file of each content.
Contents ==
    [junk     |-> [media |-> FALSE, tags |-> <<>>, streams |-> <<>>, best |-> NoBest],
     A        |-> [media |-> TRUE, tags |-> <<[k |-> "title", v |-> "a"]>>,
                   streams |-> <<VideoStream(TRUE)>>,
                   best |-> [NoBest EXCEPT !.Video = 0]],
     B        |-> [media |-> TRUE,
                   tags |-> <<[k |-> "title", v |-> "b"],
                              [k |-> "creation_time", v |-> "2023-05-01T10:00:00Z"]>>,
                   streams |-> <<>>, best |-> NoBest],
     untitled |-> [media |-> TRUE, tags |-> <<>>, streams |-> <<VideoStream(TRUE)>>,
                   best |-> [NoBest EXCEPT !.Video = 0]],
     badcodec |-> [media |-> TRUE, tags |-> <<[k |-> "title", v |-> "a"]>>,
                   streams |-> <<VideoStream(FALSE)>>,
                   best |-> [NoBest EXCEPT !.Video = 0]],
     baddate  |-> [media |-> TRUE,
                   tags |-> <<[k |-> "title", v |-> "b"],
                              [k |-> "creation_time", v |-> "yesterday"]>>,
                   streams |-> <<>>, best |-> NoBest]]

ContentNames == DOMAIN Contents

Entry(kind, id, c) == [kind |-> kind, id |-> id, c |-> c]

Parent(path) == SubSeq(path, 1, Len(path) - 1)

Last(l) == l[Len(l)]

\* Path::exists: follows symbolic links, so a dangling link does not exist
exists(f, path) == path \in DOMAIN f /\ f[path].kind # "symlink"

\* Path::is_dir
is_dir(f, path) == path \in DOMAIN f /\ f[path].kind \in {"dir", "dirx"}

\* std::fs::rename of a non-directory: the destination's directory must be
\* there and writable, a directory at the destination is not replaced, and
\* any other entry at the destination is replaced
rename(f, from, to) ==
    IF ~(Parent(to) \in DOMAIN f /\ f[Parent(to)].kind = "dir")
    THEN [ok |-> FALSE, fs |-> f]
    ELSE IF is_dir(f, to)
    THEN [ok |-> FALSE, fs |-> f]
    ELSE [ok |-> TRUE,
          fs |-> [p \in (DOMAIN f \ {from}) \cup {to} |->
                     IF p = to THEN f[from] ELSE f[p]]]

\* ffmpeg::format::input
CanProbe(f, path) ==
    /\ path \in DOMAIN f
    /\ f[path].kind = "file"
    /\ Contents[f[path].c].media

(***************************************************************************)
(* Templates.  A compiled template is a sequence of path components, each  *)
(* either literal text [lit] or a value reference [key]; rendering yields  *)
(* the components of the new file name, separated by "/".                  *)
(***************************************************************************)
Lit(text) == [lit |-> TRUE, x |-> text]
Key(name) == [lit |-> FALSE, x |-> name]

Templates == { <<Key("title")>>, <<Key("org")>>, <<Lit("s"), Key("title")>> }

RECURSIVE RenderLoop(_, _, _, _)
RenderLoop(tt, i, context, out) ==
    IF i > Len(tt) THEN [ok |-> TRUE, value |-> out]
    ELSE IF tt[i].lit THEN RenderLoop(tt, i + 1, context, Append(out, tt[i].x))
    ELSE IF tt[i].x \notin DOMAIN context
    THEN [ok |-> FALSE, err |-> "TinyTemplateError"]
    ELSE IF context[tt[i].x].t # "string"
    THEN [ok |-> FALSE, err |-> "TinyTemplateError"]
    ELSE RenderLoop(tt, i + 1, context, Append(out, context[tt[i].x].v))

\* tt.render("main", &metadata_value)
render(tt, context) == RenderLoop(tt, 1, context, <<>>)

(***************************************************************************)
(* process_file.  Answers [result, fs, event]: what the call returns, the  *)
(* filesystem it leaves, and a record of the call: the path and the entry  *)
(* it was given, how it ended, whether the file opened as a container,     *)
(* whether the template was rendered, the destination it computed, and     *)
(* whether the collision check was reached and an entry was there then.    *)
(***************************************************************************)
Errors ==
    {"FfmpegError", "ChronoFormatParseError", "Message", "TinyTemplateError",
     "Collision", "IoError"}

Event(f, path, res, outcome, rendered, dest, checked) ==
    [call |-> "process_file",
     path |-> path,
     id |-> IF path \in DOMAIN f THEN f[path].id ELSE <<"?">>,
     result |-> res,
     outcome |-> outcome,
     probed |-> CanProbe(f, path),
     rendered |-> rendered,
     dest |-> dest,
     checked |-> checked,
     present |-> checked /\ dest \in DOMAIN f]

Failed(f, path, err, rendered, dest, checked) ==
    [result |-> "Err", fs |-> f,
     event |-> Event(f, path, "Err", err, rendered, dest, checked)]

Passed(f, g, path, outcome, rendered, dest, checked) ==
    [result |-> "Ok", fs |-> g,
     event |-> Event(f, path, "Ok", outcome, rendered, dest, checked)]

\* variant: the failure to open the file is returned as an error
ProbeFailureIsAnError(f, path) == Failed(f, path, "FfmpegError", FALSE, <<>>, FALSE)

\* lines 128-132: the file does not open as a media container
ProbeFailure(f, path) == Passed(f, f, path, "skip", FALSE, <<>>, FALSE)

\* variant: the rename is performed whatever args.run says
RenameAlways(f, path, new_path, a) ==
    LET moved == rename(f, path, new_path)
    IN  IF moved.ok
        THEN Passed(f, moved.fs, path, "renamed", TRUE, new_path, TRUE)
        ELSE Failed(f, path, "IoError", TRUE, new_path, TRUE)

\* lines 156-161: rename, or say what would be renamed
RenameOrReport(f, path, new_path, a) ==
    IF a.run
    THEN LET moved == rename(f, path, new_path)
         IN  IF moved.ok
             THEN Passed(f, moved.fs, path, "renamed", TRUE, new_path, TRUE)
             ELSE Failed(f, path, "IoError", TRUE, new_path, TRUE)
    ELSE Passed(f, f, path, "dry_run", TRUE, new_path, TRUE)

\* lines 150-161: the destination, the collision check, the rename
CheckAndRename(f, path, a, new_path) ==
    IF exists(f, new_path)
    THEN Failed(f, path, "Collision", TRUE, new_path, TRUE)
    ELSE RenameOrReport(f, path, new_path, a)

\* lines 145-150: the outcome of the rendering
Rendered(f, path, a, new_filename) ==
    IF ~new_filename.ok
    THEN Failed(f, path, new_filename.err, TRUE, <<>>, FALSE)
    ELSE CheckAndRename(f, path, a, Parent(path) \o new_filename.value)

\* lines 141-143: the three keys that hold the file name
WithFilename(metadata_map, filename) ==
    Insert(Insert(Insert(metadata_map, "org", filename), "original", filename),
           "original_filename", filename)

\* lines 134-149: the outcome of get_metadata_value
Extracted(f, path, a, md) ==
    IF ~md.ok THEN Failed(f, path, md.err, FALSE, <<>>, FALSE)
    ELSE Rendered(f, path, a,
                  render(a.template, WithFilename(md.value, Str(path[Len(path)]))))

process_file(f, path, a) ==
    IF path = <<>> THEN Passed(f, f, path, "no_file_name", FALSE, <<>>, FALSE)
    ELSE IF ~CanProbe(f, path) THEN ProbeFailure(f, path)
    ELSE Extracted(f, path, a,
                   get_metadata_value(Contents[f[path].c], Contents[f[path].c].best,
                                      a.datetime_format))

(***************************************************************************)
(* The trees a run may start from: at most MaxEntries entries below the    *)
(* root; only the directory named by SubDir has entries of its own.        *)
(***************************************************************************)
SubDir == "s"

AllPaths == {<<n>> : n \in Names} \cup {<<SubDir, m>> : m \in Names}

Shapes ==
    {T \in SUBSET AllPaths :
        /\ Cardinality(T) <= MaxEntries
        /\ \A p \in T : Len(p) = 2 => Parent(p) \in T}

Labels == ContentNames \cup {"dir", "dirx", "symlink"}

Labelings(T) ==
    {k \in [T -> Labels] :
        \A p \in T : (\E q \in T : Len(q) = 2 /\ Parent(q) = p) => k[p] = "dir"}

MakeEntry(path, label) ==
    IF label \in ContentNames THEN Entry("file", path, label)
    ELSE Entry(label, path, "")

MakeFs(T, k) ==
    [p \in T \cup {<<>>} |->
        IF p = <<>> THEN Entry("dir", <<>>, "") ELSE MakeEntry(p, k[p])]

InitialTrees == UNION {{MakeFs(T, k) : k \in Labelings(T)} : T \in Shapes}

(***************************************************************************)
(* main, process_dir.                                                      *)
(***************************************************************************)
\* Args::parse: the command lines the tool may be given on the tree f
ArgsChoices(f) ==
    [template : Templates, for_dir : BOOLEAN, path : DOMAIN f, run : BOOLEAN,
     datetime_format : {DefaultDatetimeFormat}]

Children(f, dir) == {p \in DOMAIN f : Len(p) = Len(dir) + 1 /\ Parent(p) = dir}

Perms(S) ==
    {q \in [1..Cardinality(S) -> S] : \A x \in S : \E i \in DOMAIN q : q[i] = x}

\* lines 107-110: the path-type check and read_dir; the listing comes in any
\* order and is collected before any child is processed
Listings(f, path) ==
    IF ~is_dir(f, path) THEN [ok |-> FALSE, err |-> "Message", paths |-> {}]
    ELSE IF f[path].kind = "dirx"
    THEN [ok |-> FALSE, err |-> "IoError", paths |-> {}]
    ELSE [ok |-> TRUE, err |-> "", paths |-> Perms(Children(f, path))]

Frame(dir, paths) == [dir |-> dir, paths |-> paths, i |-> 1]

Top == stack[Len(stack)]

Pop(st) == SubSeq(st, 1, Len(st) - 1)

\* the enclosing activation resumes after the child at paths[i]
Advance(st) ==
    [st EXCEPT ![Len(st)] = [@ EXCEPT !.i = @ + 1]]

MetaIdle ==
    /\ container = [tags |-> <<>>, streams |-> <<>>]
    /\ best = NoBest
    /\ meta = [ok |-> FALSE, err |-> "none"]

Init ==
    /\ fs \in InitialTrees
    /\ args \in ArgsChoices(fs)
    /\ pc = "idle"
    /\ stack = <<>>
    /\ log = <<>>
    /\ result = "none"
    /\ history = <<>>
    /\ MetaIdle

\* what a call of process_file leaves behind
Leaves(r) ==
    /\ fs' = r.fs
    /\ log' = Append(log, r.event)

\* main with --file: lines 85-98, 102
MainFile ==
    /\ pc = "idle"
    /\ ~args.for_dir
    /\ Leaves(process_file(fs, args.path, args))
    /\ result' = Last(log').result
    /\ pc' = "done"
    /\ UNCHANGED <<args, stack, history, container, best, meta>>

\* main with --dir: lines 85-100, then process_dir up to its loop
MainDir ==
    /\ pc = "idle"
    /\ args.for_dir
    /\ LET l == Listings(fs, args.path)
       IN  IF l.ok
           THEN /\ \E paths \in l.paths : stack' = <<Frame(args.path, paths)>>
                /\ pc' = "running"
                /\ result' = result
           ELSE /\ stack' = stack
                /\ pc' = "done"
                /\ result' = "Err"
    /\ log' = log
    /\ UNCHANGED <<fs, args, history, container, best, meta>>

\* the activation gives up its remaining children
Abandon(st) ==
    [st EXCEPT ![Len(st)] = [@ EXCEPT !.i = Len(st[Len(st)].paths) + 1]]

\* variant: an error of process_file ends the loop over the children
StepFileBreaksOnError ==
    /\ pc = "running"
    /\ Top.i <= Len(Top.paths)
    /\ ~is_dir(fs, Top.paths[Top.i])
    /\ Leaves(process_file(fs, Top.paths[Top.i], args))
    /\ stack' = IF Last(log').result = "Err" THEN Abandon(stack) ELSE Advance(stack)
    /\ UNCHANGED <<args, pc, result, history, container, best, meta>>

\* variant: an error of process_file is returned with ?
StepFilePropagatesError ==
    /\ pc = "running"
    /\ Top.i <= Len(Top.paths)
    /\ ~is_dir(fs, Top.paths[Top.i])
    /\ Leaves(process_file(fs, Top.paths[Top.i], args))
    /\ IF Last(log').result = "Err"
       THEN stack' = stack /\ pc' = "unwinding"
       ELSE stack' = Advance(stack) /\ pc' = pc
    /\ UNCHANGED <<args, result, history, container, best, meta>>

\* lines 111-112, 115-120: a child that is not a directory; an error of
\* process_file is printed and the loop goes on
StepFile ==
    /\ pc = "running"
    /\ Top.i <= Len(Top.paths)
    /\ ~is_dir(fs, Top.paths[Top.i])
    /\ Leaves(process_file(fs, Top.paths[Top.i], args))
    /\ stack' = Advance(stack)
    /\ UNCHANGED <<args, pc, result, history, container, best, meta>>

\* the record of a process_dir call that failed
DirFailure(f, path, err) ==
    [Event(f, path, "Err", err, FALSE, <<>>, FALSE) EXCEPT !.call = "process_dir"]

\* variant: a failed recursive call is passed over like a failed file
StepDirSkipsFailure ==
    /\ pc = "running"
    /\ Top.i <= Len(Top.paths)
    /\ is_dir(fs, Top.paths[Top.i])
    /\ LET l == Listings(fs, Top.paths[Top.i])
       IN  IF l.ok
           THEN /\ \E paths \in l.paths :
                      stack' = Append(stack, Frame(Top.paths[Top.i], paths))
                /\ log' = log
           ELSE /\ stack' = Advance(stack)
                /\ log' = Append(log, DirFailure(fs, Top.paths[Top.i], l.err))
    /\ UNCHANGED <<fs, args, pc, result, history, container, best, meta>>

\* lines 111-113: a child that is a directory
StepDir ==
    /\ pc = "running"
    /\ Top.i <= Len(Top.paths)
    /\ is_dir(fs, Top.paths[Top.i])
    /\ LET l == Listings(fs, Top.paths[Top.i])
       IN  IF l.ok
           THEN /\ \E paths \in l.paths :
                      stack' = Append(stack, Frame(Top.paths[Top.i], paths))
                /\ pc' = pc
                /\ log' = log
           ELSE /\ stack' = stack
                /\ pc' = "unwinding"
                /\ log' = Append(log, DirFailure(fs, Top.paths[Top.i], l.err))
    /\ UNCHANGED <<fs, args, result, history, container, best, meta>>

\* line 123: the loop is over
Return ==
    /\ pc = "running"
    /\ Top.i > Len(Top.paths)
    /\ IF Len(stack) = 1
       THEN /\ stack' = <<>>
            /\ pc' = "done"
            /\ result' = "Ok"
       ELSE /\ stack' = Advance(Pop(stack))
            /\ pc' = pc
            /\ result' = result
    /\ UNCHANGED <<fs, args, log, history, container, best, meta>>

\* line 113: the ? hands the failure of the recursive call to the caller
Unwind ==
    /\ pc = "unwinding"
    /\ stack' = Pop(stack)
    /\ IF Len(stack) = 1
       THEN /\ pc' = "done"
            /\ result' = "Err"
       ELSE /\ pc' = pc
            /\ result' = result
    /\ UNCHANGED <<fs, args, log, history, container, best, meta>>

\* the calls of a run, their order put aside
Calls(l) == {l[i] : i \in DOMAIN l}

\* the tool is started again on the tree the last run left, with the same
\* template and path, this time with --run
NextRun ==
    /\ pc = "done"
    /\ Len(history) + 1 < MaxRuns
    /\ history' = Append(history,
                         [args |-> args, calls |-> Calls(log), result |-> result])
    /\ args' = [args EXCEPT !.run = TRUE]
    /\ pc' = "idle"
    /\ log' = <<>>
    /\ result' = "none"
    /\ UNCHANGED <<fs, stack, container, best, meta>>

Next == MainFile \/ MainDir \/ StepFile \/ StepDir \/ Return \/ Unwind \/ NextRun

Spec == Init /\ [][Next]_vars

(***************************************************************************)
(* The extractor on its own: get_metadata_value applied to every probed    *)
(* container of at most MaxStreams streams.                                *)
(***************************************************************************)
Mediums == {"Video", "Audio", "Subtitle", "Data"}

Rates == {<<30000, 1001>>, <<0, 0>>}

StreamProbes ==
    [medium : Mediums, paramsOk : BOOLEAN, decoderOk : BOOLEAN, rate : Rates]

StreamLists == UNION {[1..n -> StreamProbes] : n \in 0..MaxStreams}

TagLists ==
    { <<>>,
      <<[k |-> "title", v |-> "a"]>>,
      <<[k |-> "title", v |-> "a"], [k |-> "creation_time", v |-> "2023-05-01T10:00:00Z"]>>,
      <<[k |-> "creation_time", v |-> "yesterday"]>>,
      <<[k |-> "audio", v |-> "stereo mix"]>> }

\* streams().best(kind): a stream of that kind, None when there is none
BestChoices(strs, kind) ==
    LET of_kind == {i - 1 : i \in {j \in DOMAIN strs : strs[j].medium = kind}}
    IN  IF of_kind = {} THEN {-1} ELSE of_kind

InitMeta ==
    /\ container \in [tags : TagLists, streams : StreamLists]
    /\ best \in [Video : BestChoices(container.streams, "Video"),
                 Audio : BestChoices(container.streams, "Audio"),
                 Subtitle : BestChoices(container.streams, "Subtitle")]
    /\ args \in [template : {<<>>}, for_dir : {FALSE}, path : {<<>>}, run : {FALSE},
                 datetime_format : DatetimeFormats]
    /\ meta = [ok |-> FALSE, err |-> "none"]
    /\ pc = "probed"
    /\ fs = MakeFs({}, <<>>)
    /\ stack = <<>>
    /\ log = <<>>
    /\ result = "none"
    /\ history = <<>>

\* line 134: process_file hands the opened container to get_metadata_value
Extract ==
    /\ pc = "probed"
    /\ meta' = get_metadata_value(container, best, args.datetime_format)
    /\ pc' = "extracted"
    /\ UNCHANGED <<fs, args, stack, log, result, history, container, best>>

NextMeta == Extract

SpecMeta == InitMeta /\ [][NextMeta]_vars

(***************************************************************************)
(* Properties.                                                             *)
(***************************************************************************)
\* a step in which one more call is recorded
Called == Len(log') = Len(log) + 1

FileCalls(calls) == {e \in calls : e.call = "process_file"}

Name(path) == path[Len(path)]

\* the file name process_file rendered, as it prints it
NewName(e) == SubSeq(e.dest, Len(e.path), Len(e.dest))

Plan(calls, outcome) ==
    {<<Name(e.path), NewName(e)>> : e \in {x \in FileCalls(calls) : x.outcome = outcome}}

ErrorFiles(calls) == {e.path : e \in {x \in FileCalls(calls) : x.result = "Err"}}

IsPrefix(p, q) == Len(p) <= Len(q) /\ SubSeq(q, 1, Len(p)) = p

AllReadable(f, root) ==
    /\ is_dir(f, root)
    /\ \A p \in DOMAIN f : IsPrefix(root, p) => f[p].kind # "dirx"

RegularFiles(f) == {p \in DOMAIN f : f[p].kind = "file"}

\* C1: whenever process_file reaches the collision check and an entry is at
\* the rendered destination, the call ends with a Collision error and the
\* filesystem is left exactly as it was: nothing is renamed or overwritten.
C1_ExistingDestinationIsCollision ==
    [][(Called /\ Last(log').call = "process_file" /\ Last(log').present)
          => (Last(log').outcome = "Collision" /\ fs' = fs)]_vars

\* C2: in a dry run (args.run false) no step of process_file or process_dir
\* changes the filesystem, whatever the tree, the template and the outcome.
C2_DryRunNeverMutates == [][~args.run => fs' = fs]_vars

C2_Witness ==
    /\ pc = "done"
    /\ ~args.run
    /\ args.for_dir
    /\ \E i \in DOMAIN log : log[i].outcome = "dry_run"
    /\ \E i \in DOMAIN log : log[i].result = "Err"

\* C3: a dry run followed by an execute run of process_dir on the same tree
\* gives the same plan: the pairs reported by the dry run are the pairs the
\* execute run renamed, and the same files are reported with an error.
C3_DryRunPredictsExecute ==
    (/\ pc = "done"
     /\ args.for_dir
     /\ args.run
     /\ Len(history) >= 1
     /\ ~Last(history).args.run)
    => /\ Plan(Last(history).calls, "dry_run") = Plan(Calls(log), "renamed")
       /\ ErrorFiles(Last(history).calls) = ErrorFiles(Calls(log))

\* C4: while process_dir walks a listing, every non-directory child it has
\* gone past was passed to process_file, whatever errors earlier children
\* gave, and in execute mode such a child whose destination in its own
\* directory was free has been renamed.
C4_ErrorsDoNotStopTraversal ==
    pc = "running" =>
        \A k \in DOMAIN stack : \A j \in 1..(stack[k].i - 1) :
            ~is_dir(fs, stack[k].paths[j]) =>
                \E n \in DOMAIN log :
                    /\ log[n].call = "process_file"
                    /\ log[n].path = stack[k].paths[j]
                    /\ (/\ args.run
                        /\ log[n].checked
                        /\ ~log[n].present
                        /\ Parent(log[n].dest) = Parent(log[n].path))
                       => log[n].outcome = "renamed"

C4_Witness ==
    /\ args.for_dir
    /\ args.run
    /\ \E m \in DOMAIN log : \E n \in DOMAIN log :
          /\ m < n
          /\ log[m].call = "process_file"
          /\ log[m].result = "Err"
          /\ log[n].outcome = "renamed"
          /\ Parent(log[m].path) = Parent(log[n].path)

\* C5: a call of process_file on a file that does not open as a media
\* container returns Ok, renders nothing and leaves the filesystem as it
\* was; in single-file mode main then returns Ok.
C5_NonMediaIsSkipped ==
    [][(Called /\ Last(log').call = "process_file" /\ ~Last(log').probed)
          => /\ Last(log').result = "Ok"
             /\ ~Last(log').rendered
             /\ fs' = fs
             /\ (pc' = "done" => result' = "Ok")]_vars

C5_Witness ==
    /\ args.run
    /\ args.for_dir
    /\ \E i \in DOMAIN log :
          /\ log[i].call = "process_file"
          /\ ~log[i].probed
          /\ log[i].outcome = "skip"

\* C6: with --file, main fails exactly when process_file gave an error; with
\* --dir on a directory that can be listed, all of whose subdirectories can
\* be listed, main returns Ok however many files gave an error.
C6_ErrorPropagationPolicy ==
    pc = "done" =>
        IF args.for_dir
        THEN AllReadable(fs, args.path) => result = "Ok"
        ELSE /\ Len(log) = 1
             /\ result = log[1].result
             /\ (log[1].outcome \in Errors => result = "Err")

C6_Witness ==
    /\ pc = "done"
    /\ args.for_dir
    /\ result = "Ok"
    /\ \E i \in DOMAIN log : log[i].result = "Err" /\ log[i].outcome \in Errors

\* C9: when a recursive process_dir call fails, nothing more is processed:
\* the failure is the last call of the run, every enclosing process_dir
\* returns it without touching its remaining children or the filesystem,
\* and main returns the error.
C9_SubdirFailureAbortsRun ==
    /\ [](\A k \in DOMAIN log :
             log[k].call = "process_dir" =>
                 /\ k = Len(log)
                 /\ pc \in {"unwinding", "done"}
                 /\ (pc = "done" => result = "Err"))
    /\ [][pc = "unwinding" => (fs' = fs /\ log' = log /\ stack' = Pop(stack))]_vars

C9_Witness ==
    /\ pc = "unwinding"
    /\ Top.i < Len(Top.paths)

\* C10: in an execute run of process_dir every file is passed to
\* process_file at most once, and the number of files in the tree does not
\* change.
C10_EachFileProcessedOnce ==
    /\ []((args.for_dir /\ args.run) =>
             \A m \in DOMAIN log : \A n \in DOMAIN log :
                 (/\ log[m].call = "process_file"
                  /\ log[n].call = "process_file"
                  /\ log[m].id = log[n].id) => m = n)
    /\ [][Cardinality(RegularFiles(fs')) = Cardinality(RegularFiles(fs))]_vars

(***************************************************************************)
(* Properties of the context get_metadata_value returns.                   *)
(***************************************************************************)
StreamMaps == meta.value["streams"].v

\* the rational-valued fields of the stream mapping built for a probe
RationalFields(probe) ==
    IF probe.medium = "Video" /\ probe.decoderOk
    THEN {"time_base", "rate", "aspect_ratio"}
    ELSE {"time_base", "rate"}

ThreeForms(map, key) ==
    /\ {key, key \o "_str", key \o "_float"} \subseteq DOMAIN map
    /\ map[key].t = "array"
    /\ Len(map[key].v) = 2
    /\ map[key \o "_str"].t = "string"
    /\ map[key \o "_float"].t = "float"

\* C7: in a returned context every rational field of every stream mapping
\* is there three times: the [numerator, denominator] pair under its key,
\* the string under key_str and the float under key_float.
C7_RationalsInThreeForms ==
    (pc = "extracted" /\ meta.ok) =>
        \A i \in DOMAIN StreamMaps :
            \A key \in RationalFields(container.streams[i]) :
                ThreeForms(StreamMaps[i].v, key)

AliasKeys == [Video |-> <<"v", "video">>, Audio |-> <<"a", "audio">>,
              Subtitle |-> <<"s", "subtitle">>]

\* C8: in a returned context streams has one mapping per container stream,
\* in order, with index i at position i; for each kind both alias keys hold
\* the mapping of the best stream of that kind, and both are absent when the
\* container has no stream of that kind.
C8_StreamsAndAliases ==
    (pc = "extracted" /\ meta.ok) =>
        /\ Len(StreamMaps) = Len(container.streams)
        /\ \A i \in DOMAIN StreamMaps : StreamMaps[i].v["index"] = Num(i - 1)
        /\ \A kind \in DOMAIN AliasKeys :
              IF best[kind] >= 0
              THEN \A j \in {1, 2} :
                      /\ AliasKeys[kind][j] \in DOMAIN meta.value
                      /\ meta.value[AliasKeys[kind][j]].t = "object"
                      /\ meta.value[AliasKeys[kind][j]] = StreamMaps[best[kind] + 1]
              ELSE \A j \in {1, 2} : AliasKeys[kind][j] \notin DOMAIN meta.value

====
